---- MODULE Spec2Model ----
(***************************************************************************)
(* A model of the discrete stepwise optimizer of                          *)
(* state_reconstruction_cpp/include/optimize.hpp:                         *)
(*   minimize_discrete_stepwise_cpp, maximize_discrete_stepwise_cpp and   *)
(*   the results_cache (std::map keyed by EigenVectorXfCompare).          *)
(*                                                                         *)
(* Numbers.  A coordinate is a float32 that is an integer multiple of      *)
(* 2^-fracBits; the model holds that integer.  F32 rounds an exact sum or  *)
(* product to the nearest float32 (24 significant bits, ties to even), so  *)
(* the additions of line 106 and the products of line 97 are computed as   *)
(* the code computes them.  An objective value is an integer on an ordered *)
(* scale, with FLT_MAX the largest finite float and NaN a value that       *)
(* compares false with everything.                                         *)
(***************************************************************************)
EXTENDS Integers, Sequences, FiniteSets, TLC

VARIABLES
    pc,             \* "idle", "scan", "returned", "thrown", "aborted"
    op,             \* "minimize" or "maximize": the entry point called
    fun,            \* "f" or "negf": the callable the caller passed
    x,              \* the current point (line 27, assigned at 69, 128)
    dx,             \* the step vector (line 29, assigned at 78)
    search_range,   \* k
    maxiter,
    cid,            \* which of the caller's caches is results_cache
    dxArMg,         \* the offset table, lines 86-99
    i,              \* the iteration counter of line 102
    idx,            \* the scan index of line 109
    resMin,         \* line 107
    idxMin,         \* line 108
    converged,      \* line 101
    caches,         \* the caller's caches: cache id -> (key -> value)
    objective,      \* which objective f is: "any", "neglin", "quad"
    fvals,          \* the values of f revealed so far (f is deterministic)
    fracBits,       \* a coordinate n stands for the float n * 2^-fracBits
    invoked,        \* history: <<cache id, key>> -> times fun was invoked
    scanned,        \* history: the results of this iteration's scan so far
    runs            \* history: one record per call, the last one the current call

vars == <<pc, op, fun, x, dx, search_range, maxiter, cid, dxArMg, i, idx,
          resMin, idxMin, converged, caches, objective, fvals, fracBits,
          invoked, scanned, runs>>

(***************************************************************************)
(* Bounds of the model.                                                    *)
(***************************************************************************)
MaxIter == 2        \* the largest maxiter a modelled call of Spec is given
MaxLen == 3         \* the longest vector given to the normalization
MaxDim == 3         \* the largest dimension d of a lattice that is built
MaxRange == 2       \* the largest search_range k of a lattice that is built
MaxRows == 125      \* the largest number of rows of a lattice that is built

(***************************************************************************)
(* float32                                                                 *)
(***************************************************************************)
Abs(n) == IF n < 0 THEN -n ELSE n

RECURSIVE Pow(_, _)
Pow(b, e) == IF e <= 0 THEN 1 ELSE b * Pow(b, e - 1)

MantissaBits == 24
DefaultMaxIter == 10000
FLT_MAX == 2000000000
NaN == FLT_MAX + 1

\* The spacing of the float32 numbers around a (in units of 2^-fracBits).
RECURSIVE Quantum(_)
Quantum(a) == IF a < Pow(2, MantissaBits) THEN 1 ELSE 2 * Quantum(a \div 2)

\* Round the exact integer n to the nearest float32, ties to even.
F32(n) ==
    LET a == Abs(n)
        q == Quantum(a)
        m == a \div q
        r == a - m * q
        up == IF 2 * r > q \/ (2 * r = q /\ m % 2 = 1) THEN (m + 1) * q ELSE m * q
    IN  IF n < 0 THEN -up ELSE up

\* float "<" (line 122): false when either side is NaN.
Less(a, b) == a # NaN /\ b # NaN /\ a < b

\* float unary minus (line 151).
Neg(v) == IF v = NaN THEN NaN ELSE -v

EmptyMap == [key \in {} |-> 0]

Put(m, key, v) == [kk \in DOMAIN m \cup {key} |-> IF kk = key THEN v ELSE m[kk]]

(***************************************************************************)
(* Parameter normalization, lines 65-83.                                   *)
(***************************************************************************)
\* A slip of lines 66-74: the point is not broadcast.
NormXTruncated(x0, dx0) == x0

NormX(x0, dx0) ==
    IF Len(x0) = 1 /\ Len(dx0) > 0
    THEN [j \in 1..Len(dx0) |-> x0[1]]
    ELSE x0

NormDx(x0, dx0) ==
    IF Len(x0) = 1 /\ Len(dx0) > 0
    THEN dx0
    ELSE IF Len(dx0) = 1 /\ Len(x0) > 0
         THEN [j \in 1..Len(x0) |-> dx0[1]]
         ELSE dx0

(***************************************************************************)
(* The neighbor lattice, lines 84-99.  Rows and columns are 1-based here,  *)
(* 0-based in the code: row r is the code's i = r - 1, column j its j - 1. *)
(***************************************************************************)
Width(k) == 2 * k + 1

SizeMg(k, d) == Pow(Width(k), d)

\* A slip of line 90: the exponent counts from the first column.
RangesReversed(k, d) == [j \in 1..d |-> Pow(Width(k), j - 1)]

Ranges(k, d) == [j \in 1..d |-> Pow(Width(k), d - j)]

\* A slip of line 96: the level is not shifted by search_range.
SearchRangeValueUnshifted(i0, j, k, d) ==
    (i0 % (Ranges(k, d)[j] * Width(k))) \div Ranges(k, d)[j]

SearchRangeValue(i0, j, k, d) ==
    ((i0 % (Ranges(k, d)[j] * Width(k))) \div Ranges(k, d)[j]) - k

DxArMg(dxv, k) ==
    [r \in 1..SizeMg(k, Len(dxv)) |->
        [j \in 1..Len(dxv) |-> F32(dxv[j] * SearchRangeValue(r - 1, j, k, Len(dxv)))]]

\* xMg = dxArMg.rowwise() + x.transpose(), line 106.
XMg(xv, tab) == [r \in 1..Len(tab) |-> [j \in 1..Len(xv) |-> F32(tab[r][j] + xv[j])]]

\* Eigen's isZero() of line 130: every coefficient c has |c| <= 1e-5 (the
\* default precision of float), here in units of 2^-fracBits.
ZeroTol(bits) == Pow(2, bits) \div 100000

IsZero(row, bits) == \A j \in 1..Len(row) : Abs(row[j]) <= ZeroTol(bits)

(***************************************************************************)
(* The objective.  f is a deterministic function of the point: the first   *)
(* evaluation of a point fixes its value (fvals), every later one repeats  *)
(* it: "any" draws it from FVals (FValsHi in 2-d), "few" from FValsFew.    *)
(* "neglin" is f(x) = -x[0]; "quad" is f(x) = (x[0] - 3.7)^2.              *)
(***************************************************************************)
FVals == {-1, 1, FLT_MAX, NaN}
FValsHi == {-1, 1}
FValsFew == {-1, 1, NaN}

FValsFor(d) == IF d >= 2 THEN FValsHi ELSE FVals

\* 3.7 in units of 2^-27 is 496605593.6; QuadKey orders the points by their
\* distance to it, which is the order (x[0] - 3.7)^2 gives them.
QuadKey(n) == IF n >= 496605594 THEN 2 * (n - 496605594) ELSE 2 * (496605593 - n) + 1

ObjValues(key) ==
    CASE objective = "neglin" -> {-key[1]}
      [] objective = "quad" -> {QuadKey(key[1])}
      [] objective = "few" -> IF key \in DOMAIN fvals THEN {fvals[key]} ELSE FValsFew
      [] OTHER -> IF key \in DOMAIN fvals THEN {fvals[key]} ELSE FValsFor(Len(key))

\* The callable the caller passed: f itself, or the caller's x -> -f(x).
User(g, v) == IF g = "negf" THEN Neg(v) ELSE v

\* A slip of line 151: the lambda does not negate.
FunPlain(o, g, v) == User(g, v)

\* The callable minimize_discrete_stepwise_cpp invokes at line 115: the
\* caller's, or the negating lambda of lines 149-152.
Fun(o, g, v) == IF o = "maximize" THEN Neg(User(g, v)) ELSE User(g, v)

\* Slips of line 116: the result is not stored; the store resets the map.
StoreDropped(m, key, v) == m

StoreFresh(m, key, v) == Put(EmptyMap, key, v)

\* results_cache[key] = result, line 116.
Store(m, key, v) == Put(m, key, v)

\* result < resMin, line 122.
Better(result, best) == Less(result, best)

(***************************************************************************)
(* The calls.                                                              *)
(***************************************************************************)
CacheIds == {1, 2}

results_cache == caches[cid]

xMg == XMg(x, dxArMg)

sizeMg == Len(dxArMg)

Cur == runs[Len(runs)]

\* The assignments of lines 105-108 that start iteration n at point xv, or
\* the exit of the loop at line 102 and the throw of line 139.
LoopHead(n, m, xv, rs) ==
    IF n < m
    THEN /\ pc' = "scan"
         /\ idx' = 0
         /\ resMin' = FLT_MAX
         /\ idxMin' = -1
         /\ scanned' = <<>>
         /\ runs' = [rs EXCEPT ![Len(rs)].traj = Append(@, xv)]
    ELSE /\ pc' = "thrown"
         /\ idx' = 0
         /\ resMin' = FLT_MAX
         /\ idxMin' = -1
         /\ scanned' = <<>>
         /\ runs' = [rs EXCEPT ![Len(rs)].end = "thrown", ![Len(rs)].ret = xv]

NewRun(o, g, nx, ndx, k, m, c) ==
    [op |-> o, fun |-> g, x0 |-> nx, dx |-> ndx, k |-> k, maxiter |-> m, cid |-> c,
     cache0 |-> caches[c], traj |-> <<>>, sel |-> <<>>, end |-> "running", ret |-> <<>>]

\* A call of minimize_discrete_stepwise_cpp (o = "minimize") or of
\* maximize_discrete_stepwise_cpp (o = "maximize"): lines 65-108.
Enter(o, g, x0, dx0, k, m, c) ==
    LET nx == NormX(x0, dx0)
        ndx == NormDx(x0, dx0)
    IN  /\ pc \in {"idle", "returned", "thrown"}
        /\ Len(nx) = Len(ndx)
        /\ \A key \in DOMAIN caches[c] : Len(key) = Len(nx)
        /\ op' = o
        /\ fun' = g
        /\ x' = nx
        /\ dx' = ndx
        /\ search_range' = k
        /\ maxiter' = m
        /\ cid' = c
        /\ dxArMg' = DxArMg(ndx, k)
        /\ converged' = FALSE
        /\ i' = 0
        /\ LoopHead(0, m, nx, Append(runs, NewRun(o, g, nx, ndx, k, m, c)))
        /\ UNCHANGED <<caches, objective, fvals, fracBits, invoked>>

\* Lines 111-117 and 122-126: the candidate is not a key of the cache.
ScanMiss ==
    /\ pc = "scan"
    /\ idx < sizeMg
    /\ LET key == xMg[idx + 1]
       IN  /\ key \notin DOMAIN results_cache
           /\ \E v \in ObjValues(key) :
                LET result == Fun(op, fun, v)
                IN  /\ fvals' = IF objective \in {"any", "few"} THEN Put(fvals, key, v) ELSE fvals
                    /\ caches' = [caches EXCEPT ![cid] = Store(@, key, result)]
                    /\ invoked' = Put(invoked, <<cid, key>>,
                                      IF <<cid, key>> \in DOMAIN invoked
                                      THEN invoked[<<cid, key>>] + 1 ELSE 1)
                    /\ scanned' = Append(scanned, result)
                    /\ IF Better(result, resMin)
                       THEN idxMin' = idx /\ resMin' = result
                       ELSE UNCHANGED <<idxMin, resMin>>
    /\ idx' = idx + 1
    /\ UNCHANGED <<pc, op, fun, x, dx, search_range, maxiter, cid, dxArMg, i,
                   converged, objective, fracBits, runs>>

\* Lines 111-112 and 118-126: the candidate is a key of the cache.
ScanHit ==
    /\ pc = "scan"
    /\ idx < sizeMg
    /\ LET key == xMg[idx + 1]
       IN  /\ key \in DOMAIN results_cache
           /\ LET result == results_cache[key]
              IN  /\ scanned' = Append(scanned, result)
                  /\ IF Better(result, resMin)
                     THEN idxMin' = idx /\ resMin' = result
                     ELSE UNCHANGED <<idxMin, resMin>>
    /\ idx' = idx + 1
    /\ UNCHANGED <<pc, op, fun, x, dx, search_range, maxiter, cid, dxArMg, i,
                   converged, caches, objective, fvals, fracBits, invoked, runs>>

\* Lines 128-141 once row r of xMg was copied to x and row z of dxArMg was
\* tested by isZero().
Adopt(xv, zero, sel) ==
    LET rs == [runs EXCEPT ![Len(runs)].sel = Append(@, sel)]
    IN  /\ x' = xv
        /\ IF zero
           THEN /\ converged' = TRUE
                /\ pc' = "returned"
                /\ runs' = [rs EXCEPT ![Len(rs)].end = "returned", ![Len(rs)].ret = xv]
                /\ UNCHANGED <<i, idx, resMin, idxMin, scanned>>
           ELSE /\ converged' = FALSE
                /\ i' = i + 1
                /\ LoopHead(i + 1, maxiter, xv, rs)
        /\ UNCHANGED <<op, fun, dx, search_range, maxiter, cid, dxArMg, caches,
                       objective, fvals, fracBits, invoked>>

\* Lines 128-141 when the scan selected a row.
Select ==
    /\ pc = "scan"
    /\ idx = sizeMg
    /\ idxMin >= 0
    /\ Adopt(xMg[idxMin + 1], IsZero(dxArMg[idxMin + 1], fracBits), idxMin)

\* Line 128 with idxMin = -1, assertions compiled in: Eigen's row() asserts
\* 0 <= i and the process aborts.
SelectAbort ==
    /\ pc = "scan"
    /\ idx = sizeMg
    /\ idxMin < 0
    /\ pc' = "aborted"
    /\ runs' = [runs EXCEPT ![Len(runs)].sel = Append(@, idxMin),
                            ![Len(runs)].end = "aborted"]
    /\ UNCHANGED <<op, fun, x, dx, search_range, maxiter, cid, dxArMg, i, idx,
                   resMin, idxMin, converged, caches, objective, fvals, fracBits,
                   invoked, scanned>>

\* Row -1 of a column-major table: column 0 is read one float before the
\* buffer (any value), column j > 0 is the last row's column j - 1.
RowBefore(tab, g) ==
    [j \in 1..Len(tab[1]) |-> IF j = 1 THEN g ELSE tab[Len(tab)][j - 1]]

Garbage == {0, 64}

\* Lines 128-141 with idxMin = -1, assertions compiled out (NDEBUG): row(-1)
\* of xMg and of dxArMg are read out of bounds.
SelectGarbage ==
    /\ pc = "scan"
    /\ idx = sizeMg
    /\ idxMin < 0
    /\ \E g1 \in Garbage, g2 \in Garbage :
          Adopt(RowBefore(xMg, g1), IsZero(RowBefore(dxArMg, g2), fracBits), idxMin)

(***************************************************************************)
(* The caller: what it may pass, and the specification of the calls.       *)
(***************************************************************************)
\* With fracBits = 17: 0.0 and 8192.0.  The steps used below are 0, 2^-17
\* (within isZero's 1e-5) and 2^-12 (which 8192.0 absorbs: 8192 + 2^-12 = 8192).
XIn == {<<0>>, <<Pow(2, 30)>>}

PreKeys == {<<0>>, <<32>>}

\* What the one call of Spec may be given, <<x, dx, search_range, maxiter>>:
\* any 1-d point and step with search_range 0 or 1 and maxiter <= MaxIter;
\* search_range 2 with the small step; the 2-d step, where x is broadcast.
CallArgs ==
    (XIn \X {<<0>>, <<1>>, <<32>>} \X {0, 1} \X (0..MaxIter))
    \cup ({<<0>>} \X {<<1>>} \X {2} \X {0, 1})
    \cup ({<<0>>} \X {<<32, 32>>} \X {0, 1} \X {0, 1})

\* Before the first call: no call in progress, both caches empty.
Start(obj, bits) ==
    /\ pc = "idle"
    /\ op = "minimize"
    /\ fun = "f"
    /\ x = <<>>
    /\ dx = <<>>
    /\ search_range = 0
    /\ maxiter = 0
    /\ cid = 1
    /\ dxArMg = <<>>
    /\ i = 0
    /\ idx = 0
    /\ resMin = FLT_MAX
    /\ idxMin = -1
    /\ converged = FALSE
    /\ caches = [c \in CacheIds |-> EmptyMap]
    /\ objective = obj
    /\ fvals = EmptyMap
    /\ fracBits = bits
    /\ invoked = EmptyMap
    /\ scanned = <<>>
    /\ runs = <<>>

Init == Start("any", 17)

\* The caller stores an entry in its cache 1 before the first call: the
\* value of f at the key, or its negation.
Populate ==
    /\ pc = "idle"
    /\ runs = <<>>
    /\ caches[1] = EmptyMap
    /\ \E key \in PreKeys \ DOMAIN caches[1], t \in FVals, g \in {"f", "negf"} :
          /\ fvals' = Put(fvals, key, t)
          /\ caches' = [caches EXCEPT ![1] = Put(@, key, User(g, t))]
    /\ UNCHANGED <<pc, op, fun, x, dx, search_range, maxiter, cid, dxArMg, i, idx,
                   resMin, idxMin, converged, objective, fracBits, invoked,
                   scanned, runs>>

Minimize ==
    /\ runs = <<>>
    /\ \E g \in {"f", "negf"}, a \in CallArgs :
          Enter("minimize", g, a[1], a[2], a[3], a[4], 1)

Maximize ==
    /\ runs = <<>>
    /\ \E a \in CallArgs :
          Enter("maximize", "f", a[1], a[2], a[3], a[4], 1)

Next ==
    \/ Populate
    \/ Minimize
    \/ Maximize
    \/ ScanMiss
    \/ ScanHit
    \/ Select
    \/ SelectAbort
    \/ SelectGarbage

Spec == Init /\ [][Next]_vars

(***************************************************************************)
(* One call that runs to its end: a call in progress always executes its   *)
(* next step (the objective terminates, nothing else holds the loop up).   *)
(***************************************************************************)
CallTerm ==
    /\ runs = <<>>
    /\ \E o \in {"minimize", "maximize"}, k \in {0, 1}, m \in 0..MaxIter :
          Enter(o, "f", <<0>>, <<32>>, k, m, 1)

InitTerm == Start("few", 17)

Step == ScanMiss \/ ScanHit \/ Select \/ SelectAbort \/ SelectGarbage

NextTerm == CallTerm \/ Step

SpecTerm == InitTerm /\ [][NextTerm]_vars /\ WF_vars(Step)

(***************************************************************************)
(* The objective f(x) = -x[0] with maxiter = 5, from an empty cache.       *)
(***************************************************************************)
CallLinear ==
    /\ runs = <<>>
    /\ \E x0 \in {<<0>>, <<-64>>, <<Pow(2, 30)>>}, dx0 \in {<<1>>, <<32>>}, k \in {1, 2} :
          Enter("minimize", "f", x0, dx0, k, 5, 1)

InitLinear == Start("neglin", 17)

NextLinear == CallLinear \/ ScanMiss \/ ScanHit \/ Select

SpecLinear == InitLinear /\ [][NextLinear]_vars

(***************************************************************************)
(* The objective f(x) = (x[0] - 3.7)^2 from x = [0.0] with dx = [0.1],     *)
(* search_range = 1 and the default maxiter.  Coordinates are in units of  *)
(* 2^-27: 0.1f is 13421773 * 2^-27.                                        *)
(***************************************************************************)
CallQuad ==
    /\ runs = <<>>
    /\ Enter("minimize", "f", <<0>>, <<13421773>>, 1, DefaultMaxIter, 1)

InitQuad == Start("quad", 27)

NextQuad == CallQuad \/ ScanMiss \/ ScanHit \/ Select

SpecQuad == InitQuad /\ [][NextQuad]_vars

(***************************************************************************)
(* The normalization alone: lines 65-83 applied to any two vectors of up   *)
(* to MaxLen coordinates.  runs[1] keeps the vectors as they were passed.  *)
(***************************************************************************)
Vecs == UNION {[1..n -> {1, 2}] : n \in 0..MaxLen}

InitNorm ==
    /\ \E x0 \in Vecs, dx0 \in Vecs :
          /\ x = x0
          /\ dx = dx0
          /\ runs = <<[x0 |-> x0, dx |-> dx0]>>
    /\ pc = "args"
    /\ op = "minimize"
    /\ fun = "f"
    /\ search_range = 0
    /\ maxiter = 0
    /\ cid = 1
    /\ dxArMg = <<>>
    /\ i = 0
    /\ idx = 0
    /\ resMin = FLT_MAX
    /\ idxMin = -1
    /\ converged = FALSE
    /\ caches = [c \in CacheIds |-> EmptyMap]
    /\ objective = "any"
    /\ fvals = EmptyMap
    /\ fracBits = 17
    /\ invoked = EmptyMap
    /\ scanned = <<>>

Normalize ==
    /\ pc = "args"
    /\ x' = NormX(x, dx)
    /\ dx' = NormDx(x, dx)
    /\ pc' = "normalized"
    /\ UNCHANGED <<op, fun, search_range, maxiter, cid, dxArMg, i, idx, resMin,
                   idxMin, converged, caches, objective, fvals, fracBits, invoked,
                   scanned, runs>>

NextNorm == Normalize

SpecNorm == InitNorm /\ [][NextNorm]_vars

(***************************************************************************)
(* Two calls in sequence on the caller's two caches, one objective f       *)
(* throughout.  The first call starts at 0 on cache 1; the second keeps    *)
(* the step, the search range and the iteration cap, and chooses its entry *)
(* point, its callable, its starting point and its cache.                  *)
(***************************************************************************)
SeqArgs ==
    IF runs = <<>>
    THEN {<<0>>} \X {<<32>>} \X {1} \X (1..MaxIter) \X {1}
    ELSE {<<0>>, <<32>>} \X {Cur.dx} \X {Cur.k} \X {Cur.maxiter} \X CacheIds

MinimizeSeq ==
    /\ Len(runs) < 2
    /\ \E g \in {"f", "negf"}, a \in SeqArgs :
          Enter("minimize", g, a[1], a[2], a[3], a[4], a[5])

MaximizeSeq ==
    /\ Len(runs) < 2
    /\ \E a \in SeqArgs :
          Enter("maximize", "f", a[1], a[2], a[3], a[4], a[5])

NextSeq ==
    \/ MinimizeSeq
    \/ MaximizeSeq
    \/ ScanMiss
    \/ ScanHit
    \/ Select
    \/ SelectAbort
    \/ SelectGarbage

InitSeq == Start("few", 17)

SpecSeq == InitSeq /\ [][NextSeq]_vars

(***************************************************************************)
(* The lattice of every dimension up to MaxDim and every search range up   *)
(* to MaxRange that has at most MaxRows rows, built by a call on           *)
(* f(x) = -x[0] that then iterates.                                        *)
(***************************************************************************)
CallLattice ==
    /\ runs = <<>>
    /\ \E d \in 1..MaxDim, k \in 0..MaxRange :
          /\ SizeMg(k, d) <= MaxRows
          /\ Enter("minimize", "f", <<0>>, [j \in 1..d |-> 32], k, MaxIter, 1)

InitLattice == Start("neglin", 17)

NextLattice == CallLattice \/ ScanMiss \/ ScanHit \/ Select

SpecLattice == InitLattice /\ [][NextLattice]_vars

(***************************************************************************)
(* What the claims speak of.                                               *)
(***************************************************************************)
Known(key) == key \in DOMAIN fvals

\* The value at an evaluated point of the function the current call minimizes.
F(key) == Fun(Cur.op, Cur.fun, fvals[key])

\* At the call, the cache held only values of the minimized function.
CacheTruthful ==
    \A key \in DOMAIN Cur.cache0 : Known(key) /\ Cur.cache0[key] = F(key)

\* float "<=": false when either side is NaN.
LessEq(a, b) == a # NaN /\ b # NaN /\ a <= b

\* The offset is the all-zero vector.
ExactZero(row) == \A j \in 1..Len(row) : row[j] = 0

\* Iteration n of the current call selected a row whose offset is all zero.
SelectedZero(n) == Cur.sel[n] >= 0 /\ ExactZero(dxArMg[Cur.sel[n] + 1])

\* The scan of an iteration is over and line 128 is next.
SelectionReady == pc = "scan" /\ idx = sizeMg

\* Row r holds the smallest value of s and is the first row to hold it.
FirstMin(s, r) ==
    \A q \in 1..Len(s) : ~Less(s[q], s[r]) /\ (q < r => s[q] # s[r])

\* C1: a returned point is a local minimum of the minimized function on the
\* neighbor lattice: no neighbor p + o has a strictly smaller value, when the
\* cache held only values of that function at the call.
C1_LocalMinimum ==
    (runs # <<>> /\ Cur.end = "returned" /\ CacheTruthful) =>
        \A r \in 1..sizeMg :
            LET q == XMg(Cur.ret, dxArMg)[r]
            IN  Known(q) /\ Known(Cur.ret) /\ ~Less(F(q), F(Cur.ret))

\* C2: a call returns a point only if some iteration selected the all-zero
\* offset; maxiter completed iterations none of which selected it end in the
\* throw; with maxiter = 0 the call throws without invoking the objective.
C2_NonConvergence ==
    runs # <<>> =>
        /\ Cur.end = "returned" =>
              \E n \in 1..Len(Cur.sel) : n <= maxiter /\ SelectedZero(n)
        /\ (/\ Len(Cur.sel) = maxiter
            /\ Cur.end # "aborted"
            /\ \A n \in 1..Len(Cur.sel) : ~SelectedZero(n)) => Cur.end = "thrown"
        /\ maxiter = 0 => (Cur.end = "thrown" /\ invoked = EmptyMap)

\* x* is a fixed point: its value is <= the value of every neighbor.
FixedPoint(p) ==
    \A r \in 1..sizeMg :
        LET q == XMg(p, dxArMg)[r]
        IN  Known(q) /\ Known(p) /\ LessEq(F(p), F(q))

\* C3: started at a fixed point x* (ties with neighbors allowed), the call
\* converges in its first iteration and returns x* unchanged.
C3_Idempotence ==
    (runs # <<>> /\ Len(Cur.sel) >= 1 /\ CacheTruthful /\ FixedPoint(Cur.x0)) =>
        (Cur.end = "returned" /\ Len(Cur.sel) = 1 /\ Cur.ret = Cur.x0)

\* C5: when the scan of an iteration is over, the selected row is a row of the
\* table, it holds the smallest value scanned, and it is the first row that
\* holds that value.
C5_TieBreak ==
    SelectionReady => (idxMin \in 0..(sizeMg - 1) /\ FirstMin(scanned, idxMin + 1))

\* C7: with f(x) = -x[0], maxiter = 5 and an empty cache, no iteration
\* selects the all-zero offset and the call ends in the throw after its 5
\* iterations, never returning a point.
C7_LinearNeverConverges ==
    runs # <<>> =>
        /\ \A n \in 1..Len(Cur.sel) : ~SelectedZero(n)
        /\ Cur.end # "returned"
        /\ Cur.end # "running" => (Cur.end = "thrown" /\ Len(Cur.sel) = 5)

\* C9: a one-coordinate point with a step of n >= 1 coordinates becomes n
\* copies of its scalar and the step is unchanged; otherwise a one-coordinate
\* step with a point of n >= 1 coordinates becomes n copies of its scalar and
\* the point is unchanged; both then have the same length.
C9_Broadcasting ==
    pc = "normalized" =>
        LET x0 == runs[1].x0
            dx0 == runs[1].dx
        IN  /\ (Len(x0) = 1 /\ Len(dx0) >= 1) =>
                  /\ Len(x) = Len(dx0)
                  /\ \A j \in 1..Len(x) : x[j] = x0[1]
                  /\ dx = dx0
                  /\ Len(x) = Len(dx)
            /\ (~(Len(x0) = 1 /\ Len(dx0) >= 1) /\ Len(dx0) = 1 /\ Len(x0) >= 1) =>
                  /\ Len(dx) = Len(x0)
                  /\ \A j \in 1..Len(dx) : dx[j] = dx0[1]
                  /\ x = x0
                  /\ Len(x) = Len(dx)
            /\ (x0 = <<2>> /\ dx0 = <<1, 1, 1>>) => x = <<2, 2, 2>>
            /\ (x0 = <<1, 2>> /\ dx0 = <<1>>) => dx = <<1, 1>>

C9_Witness ==
    /\ pc = "normalized"
    /\ runs[1].x0 = <<2>>
    /\ runs[1].dx = <<1, 1, 1>>
    /\ x = <<2, 2, 2>>

\* The previous call.
Prev == runs[Len(runs) - 1]

\* The candidate the scan looks up next.
candidate == xMg[idx + 1]

\* C4: the objective is invoked at most once per key and cache; a candidate
\* that is a key of the cache is not passed to the objective, and the stored
\* value is the one compared with the running minimum.
C4_CacheCorrect ==
    [][/\ \A e \in DOMAIN invoked' : invoked'[e] <= 1
       /\ (pc = "scan" /\ idx < sizeMg /\ candidate \in DOMAIN results_cache) =>
             /\ invoked' = invoked
             /\ scanned' = Append(scanned, results_cache[candidate])
             /\ idxMin' = IF Less(results_cache[candidate], resMin) THEN idx ELSE idxMin
             /\ resMin' = IF Less(results_cache[candidate], resMin)
                          THEN results_cache[candidate] ELSE resMin]_vars

\* The second call has finished its first scan, in which it looked up a
\* candidate that the first call left in the shared cache and also invoked
\* the objective on a candidate the cache did not hold.
C4_Witness ==
    /\ Len(runs) = 2
    /\ pc = "scan"
    /\ idx = sizeMg
    /\ Cur.sel = <<>>
    /\ \E r \in 1..sizeMg : xMg[r] \in DOMAIN Cur.cache0
    /\ \E r \in 1..sizeMg : xMg[r] \notin DOMAIN Cur.cache0

\* The first call was maximize(f) and the second minimize(x -> -f(x)), each
\* on an empty cache, with the same arguments.
DualPair ==
    /\ Len(runs) = 2
    /\ Prev.op = "maximize" /\ Prev.fun = "f" /\ Prev.cache0 = EmptyMap
    /\ Cur.op = "minimize" /\ Cur.fun = "negf" /\ Cur.cache0 = EmptyMap
    /\ Cur.x0 = Prev.x0 /\ Cur.dx = Prev.dx /\ Cur.k = Prev.k
    /\ Cur.maxiter = Prev.maxiter

C8_Quadratic ==
    (runs # <<>> /\ Cur.end # "running") =>
        /\ Cur.end = "returned"
        /\ Len(Cur.sel) = 38
        /\ \A n \in 1..37 : Cur.sel[n] = 2
        /\ Cur.sel[38] = 1
        /\ Cur.ret = Cur.traj[38]
        /\ 2 * Abs(Cur.ret[1] - 496605594) < dx[1]

C8_Witness == pc = "returned" /\ i = 37 /\ Len(Cur.traj) = 38

\* C10: a step never removes an entry of a cache nor changes its value; a
\* step that changes a cache adds one absent key to the cache of the call, with
\* the value the minimized function returned for it.
C10_CacheGrows ==
    [][/\ \A c \in CacheIds : \A e \in DOMAIN caches[c] :
             e \in DOMAIN caches'[c] /\ caches'[c][e] = caches[c][e]
       /\ caches' # caches =>
             /\ pc = "scan"
             /\ candidate \notin DOMAIN results_cache
             /\ \A c \in CacheIds \ {cid} : caches'[c] = caches[c]
             /\ DOMAIN caches'[cid] = DOMAIN results_cache \cup {candidate}
             /\ caches'[cid][candidate] = Fun(op, fun, fvals'[candidate])]_vars

\* The second call, made on the cache of a first call that threw, has added
\* an entry to it.
C10_Witness ==
    /\ Len(runs) = 2
    /\ Prev.end = "thrown"
    /\ Cur.cid = Prev.cid
    /\ Cur.cache0 # EmptyMap
    /\ DOMAIN caches[Cur.cid] # DOMAIN Cur.cache0

\* The level vector of row r (the code's i = r - 1), by the formula of line 96.
LevelRow(r, k, d) == [j \in 1..d |-> SearchRangeValue(r - 1, j, k, d)]

\* The Cartesian product {-k..k}^d.
Levels(k, d) == [1..d -> (-k)..k]

\* a comes before b in row-major order: at the first coordinate where they
\* differ a is smaller.
RowMajorBefore(a, b) ==
    \E j \in 1..Len(a) : a[j] < b[j] /\ \A h \in 1..(j - 1) : a[h] = b[h]

\* C11: the table has (2k+1)^d rows, row i holding dx[j] times the level
\* (i mod (range_j*(2k+1))) / range_j - k with range_j = (2k+1)^(d-j-1); the
\* level vectors are the elements of {-k..k}^d, each once, in row-major
\* order, so the all-zero one occurs once; the table of a call is the one
\* built at its start in every one of its iterations.
C11_Lattice ==
    (runs # <<>>) =>
        LET k == Cur.k
            d == Len(Cur.dx)
            n == Pow(2 * k + 1, d)
        IN  /\ Len(dxArMg) = n
            /\ \A r \in 1..n : \A j \in 1..d :
                  /\ Ranges(k, d)[j] = Pow(2 * k + 1, d - (j - 1) - 1)
                  /\ dxArMg[r][j] = F32(Cur.dx[j] * LevelRow(r, k, d)[j])
            /\ \A r \in 1..n : LevelRow(r, k, d) \in Levels(k, d)
            /\ \A r \in 1..(n - 1) : RowMajorBefore(LevelRow(r, k, d), LevelRow(r + 1, k, d))
            /\ (Len(Cur.traj) = 1 /\ idx = 0) =>
                  /\ \A t \in Levels(k, d) :
                        Cardinality({r \in 1..n : LevelRow(r, k, d) = t}) = 1
                  /\ Cardinality({r \in 1..n : ExactZero(dxArMg[r])}) = 1

\* A call with d >= 2 and k >= 2 has scanned the table in its second
\* iteration.
C11_Witness ==
    /\ runs # <<>>
    /\ Len(Cur.dx) >= 2
    /\ Cur.k >= 2
    /\ Len(Cur.traj) = 2
    /\ pc = "scan"
    /\ idx = sizeMg

\* C12: an iteration that selects a row with the all-zero offset is the last
\* one and the call returns the point that iteration started from; an
\* iteration that selects a row with another offset does not end the loop by
\* convergence, and the next iteration starts from the selected candidate.
C12_ConvergenceStep ==
    runs # <<>> =>
        \A n \in 1..Len(Cur.sel) :
            Cur.sel[n] >= 0 =>
                IF SelectedZero(n)
                THEN /\ n = Len(Cur.sel)
                     /\ Cur.end = "returned"
                     /\ Cur.ret = Cur.traj[n]
                ELSE /\ ~(n = Len(Cur.sel) /\ Cur.end = "returned")
                     /\ n < Len(Cur.traj) =>
                           Cur.traj[n + 1] = XMg(Cur.traj[n], dxArMg)[Cur.sel[n] + 1]

\* C13: in a maximize run, a candidate that is not a key of the cache is
\* stored with the negated objective value -f(p), which is also the value
\* compared; a candidate that is a key is compared by its stored value as it
\* is, whatever sign convention it was stored under, and the cache is left
\* alone.
C13_MaximizeNegated ==
    [][(op = "maximize" /\ pc = "scan" /\ idx < sizeMg) =>
          IF candidate \notin DOMAIN results_cache
          THEN /\ caches'[cid] = Put(results_cache, candidate, Neg(fvals'[candidate]))
               /\ fvals'[candidate] # NaN => caches'[cid][candidate] # fvals'[candidate]
               /\ scanned' = Append(scanned, Neg(fvals'[candidate]))
          ELSE /\ caches' = caches
               /\ scanned' = Append(scanned, results_cache[candidate])
               /\ idxMin' = IF Less(results_cache[candidate], resMin) THEN idx ELSE idxMin]_vars

\* A maximize run on the cache a minimize run on f left has finished its
\* first scan: it looked up an entry holding f(p) and stored an entry
\* holding -f(q).
C13_Witness ==
    /\ Len(runs) = 2
    /\ Prev.op = "minimize" /\ Prev.fun = "f"
    /\ Cur.op = "maximize"
    /\ Cur.cid = Prev.cid
    /\ pc = "scan" /\ idx = sizeMg /\ Cur.sel = <<>>
    /\ \E r \in 1..sizeMg :
          /\ xMg[r] \in DOMAIN Cur.cache0
          /\ Cur.cache0[xMg[r]] = fvals[xMg[r]]
          /\ fvals[xMg[r]] # NaN
    /\ \E r \in 1..sizeMg :
          /\ xMg[r] \notin DOMAIN Cur.cache0
          /\ fvals[xMg[r]] # NaN
          /\ caches[cid][xMg[r]] = -fvals[xMg[r]]

\* C14: when the scan of an iteration is over and line 128 is about to
\* replace the current point, idxMin is a row index of the table, never the
\* initial -1.
C14_IdxMinValid ==
    SelectionReady => (idxMin >= 0 /\ idxMin < sizeMg)

\* The current points of the current call in order: the point each iteration
\* started from, then the point the call ended with.
Points ==
    IF Cur.end \in {"returned", "thrown"} THEN Append(Cur.traj, Cur.ret) ELSE Cur.traj

\* The row of the all-zero levels (1-based): the middle row of the table.
ZeroRow == (sizeMg + 1) \div 2

\* C15: the value of the minimized function at the current point never
\* increases from one iteration to the next: the value at x_{n+1} is less
\* than the value at x_n, or equal with x_{n+1} a row before the zero
\* offset's row, when the cache held only values of that function.
C15_NeverIncreases ==
    (runs # <<>> /\ CacheTruthful) =>
        \A n \in 1..(Len(Points) - 1) :
            (Known(Points[n]) /\ Known(Points[n + 1]) /\ n <= Len(Cur.sel)) =>
                \/ Less(F(Points[n + 1]), F(Points[n]))
                \/ /\ F(Points[n + 1]) = F(Points[n])
                   /\ F(Points[n]) # NaN
                   /\ Cur.sel[n] + 1 <= ZeroRow

\* C16: with every step size non-zero and a cache that held only values of
\* the minimized function, no point is the current point of two different
\* iterations of one call.
C16_NeverCycles ==
    (runs # <<>> /\ CacheTruthful /\ \A j \in 1..Len(Cur.dx) : Cur.dx[j] # 0) =>
        \A a \in 1..Len(Cur.traj) : \A b \in 1..Len(Cur.traj) :
            a # b => Cur.traj[a] # Cur.traj[b]

\* The first call ran on an empty cache; the second has the same entry
\* point, callable and arguments and runs on the cache the first one left,
\* which holds values of the minimized function only.
WarmPair ==
    /\ Len(runs) = 2
    /\ Prev.cache0 = EmptyMap
    /\ Cur.cid = Prev.cid
    /\ Cur.op = Prev.op /\ Cur.fun = Prev.fun
    /\ Cur.x0 = Prev.x0 /\ Cur.dx = Prev.dx /\ Cur.k = Prev.k
    /\ Cur.maxiter = Prev.maxiter
    /\ CacheTruthful

RECURSIVE Invocations(_)
Invocations(keys) ==
    IF keys = {} THEN 0
    ELSE LET e == CHOOSE e \in keys : TRUE
         IN  invoked[e] + Invocations(keys \ {e})

\* The call is over: it returned a point or threw.
Ended == runs # <<>> /\ Cur.end \in {"returned", "thrown"}

\* C18: a call runs at most maxiter iterations, each scanning exactly
\* (2k+1)^d candidates, invokes the objective at most maxiter * (2k+1)^d
\* times, and ends by returning or by throwing.
C18_Terminates ==
    /\ [](runs # <<>> =>
            /\ Len(Cur.traj) <= maxiter
            /\ Len(Cur.sel) <= maxiter
            /\ idx <= sizeMg
            /\ Len(scanned) = idx
            /\ sizeMg = Pow(2 * search_range + 1, Len(dx))
            /\ Invocations(DOMAIN invoked) <= maxiter * Pow(2 * search_range + 1, Len(dx)))
    /\ (runs # <<>>) ~> Ended

====
